---- MODULE Spec2Model ----
(***************************************************************************)
(* Model of samples/multiscreen-slideshow.c: the slideshow description     *)
(* parser (Parser, ParserGetImages), the list of FrameData it builds, and  *)
(* the playback clock driven by keyboard() and display().                  *)
(*                                                                         *)
(* Conventions.                                                            *)
(*  - A character is a one-character string; the text is a sequence of     *)
(*    characters.  Parser.pos is the 0-based offset (pos - text), so       *)
(*    Parser.end is Len(text).                                             *)
(*  - A float or double is an exact rational [n, d] with d >= 0; d = 0     *)
(*    stands for the IEEE results of a division by zero (n = 1: +inf,      *)
(*    n = -1: -inf, n = 0: NaN).  Rounding of float is not modelled; the   *)
(*    inputs use decimal fractions that are exact in binary (.5).          *)
(*  - exit(1) is the field err of the parser record: once err is set, the  *)
(*    remaining operations of the handler leave the record unchanged.      *)
(*  - dgr_setget/dgr_is_master are taken for the master process, where     *)
(*    dgr_setget leaves the variable as it is and dgr_is_master() is 1.    *)
(***************************************************************************)
EXTENDS Integers, Sequences, FiniteSets, TLC

(***************************************************************************)
(* Bounds of the model.                                                    *)
(***************************************************************************)
MaxDirectives == 3
MaxClock == 12
MaxStep == 5

(***************************************************************************)
(* Rational arithmetic standing for float/double.                          *)
(***************************************************************************)
Abs(i) == IF i < 0 THEN -i ELSE i

Sign(i) == IF i < 0 THEN -1 ELSE IF i > 0 THEN 1 ELSE 0

RECURSIVE GCD(_, _)
GCD(a, b) == IF b = 0 THEN a ELSE GCD(b, a % b)

RReduce(n, d, g) == [n |-> n \div g, d |-> d \div g]

R(n, d) ==
    IF d = 0 THEN [n |-> Sign(n), d |-> 0]
    ELSE IF d < 0 THEN RReduce(-n, -d, GCD(Abs(n), Abs(d)))
    ELSE RReduce(n, d, GCD(Abs(n), Abs(d)))

RInt(i) == [n |-> i, d |-> 1]

RAdd(a, b) == R(a.n * b.d + b.n * a.d, a.d * b.d)

RSub(a, b) == R(a.n * b.d - b.n * a.d, a.d * b.d)

RMul(a, b) == R(a.n * b.n, a.d * b.d)

RDiv(a, b) == R(a.n * b.d, a.d * b.n)

RLt(a, b) == a.n * b.d < b.n * a.d

RGt(a, b) == RLt(b, a)

RGe(a, b) == a.n * b.d >= b.n * a.d /\ ~(a.n = 0 /\ a.d = 0) /\ ~(b.n = 0 /\ b.d = 0)

RFinite(a) == a.d # 0

\* conversion float -> int of C: truncation toward zero
RTrunc(a) == Sign(a.n) * (Abs(a.n) \div a.d)

(***************************************************************************)
(* Characters.                                                             *)
(***************************************************************************)
NUL == "NUL"

LowerSeq == << "a", "b", "c", "d", "e", "f", "g", "h", "i", "j", "k", "l", "m",
               "n", "o", "p", "q", "r", "s", "t", "u", "v", "w", "x", "y", "z" >>

UpperSeq == << "A", "B", "C", "D", "E", "F", "G", "H", "I", "J", "K", "L", "M",
               "N", "O", "P", "Q", "R", "S", "T", "U", "V", "W", "X", "Y", "Z" >>

DigitSeq == << "0", "1", "2", "3", "4", "5", "6", "7", "8", "9" >>

Range(s) == { s[i] : i \in DOMAIN s }

IndexOf(s, c) == CHOOSE i \in DOMAIN s : s[i] = c

IsAlpha(c) == c \in Range(LowerSeq) \cup Range(UpperSeq)

IsNumber(c) == c \in Range(DigitSeq)

\* the value of the char as an int (ASCII), for the chars of the inputs
CharCode(c) ==
    IF c \in Range(LowerSeq) THEN 96 + IndexOf(LowerSeq, c)
    ELSE IF c \in Range(UpperSeq) THEN 64 + IndexOf(UpperSeq, c)
    ELSE IF c \in Range(DigitSeq) THEN 47 + IndexOf(DigitSeq, c)
    ELSE CASE c = NUL  -> 0
           [] c = "\n" -> 10
           [] c = " "  -> 32
           [] c = "\"" -> 34
           [] c = ","  -> 44
           [] c = "-"  -> 45
           [] c = "."  -> 46
           [] c = "/"  -> 47
           [] c = "="  -> 61
           [] c = "{"  -> 123
           [] c = "}"  -> 125

(***************************************************************************)
(* State.                                                                  *)
(***************************************************************************)
VARIABLES
    text,           \* Parser.text: the loaded description
    parser,         \* Parser.pos (as offset), line, linePos; err set by exit(1)
    screen,         \* ParserGetImages: Vec2 screen
    screenSet,      \* ParserGetImages: int screenSet
    cur,            \* ParserGetImages: FrameData *cur, the list head first
    imageDir,       \* ParserGetImages: char imageDir[]
    captionDir,     \* ParserGetImages: char captionDir[]
    loadStartTime,  \* ParserGetImages: int loadStartTime
    index,          \* ParserGetImages: int index
    declared,       \* the FrameData made by NewFrameData so far, in order of creation
    pc,             \* main: "parsing", "running" (the display/poll loop), "exited"
    imageInfo,      \* static FrameData *imageInfo
    lastFrameTime,  \* static double lastFrameTime
    frameTime,      \* static double frameTime
    frameStart,     \* static double frameStart
    totalDuration,  \* static double totalDuration
    started,        \* static int started
    shouldClose,    \* the window's close flag
    now,            \* glfwGetTime(), in units of 1/ClockDen second
    song,           \* display: the last display() called kuhl_play_sound
    wraps,          \* display: subtractions done by the last display()
    startSinceTick, \* keyboard: SPACE was pressed since the last display()
    tickAfterStart, \* display: the last display() was the first after a SPACE press
    sinceSong,      \* what happened since the last sound: "wrap" (display), "start" (keyboard)
    songAfter,      \* display: the value of sinceSong when the last sound was played
    songCount,      \* display: calls of kuhl_play_sound so far, counted up to 2
    drawn           \* display: the items the last display() drew, in order

vars == << text, parser, screen, screenSet, cur, imageDir, captionDir,
           loadStartTime, index, declared, pc, imageInfo, lastFrameTime,
           frameTime, frameStart, totalDuration, started, shouldClose, now,
           song, wraps, startSinceTick, tickAfterStart, sinceSong, songAfter,
           songCount, drawn >>

parseVars == << text, parser, screen, screenSet, cur, imageDir, captionDir,
                loadStartTime, index, declared >>

playVars == << lastFrameTime, frameTime, frameStart, started, shouldClose,
               song, wraps, startSinceTick, tickAfterStart, sinceSong,
               songAfter, songCount, drawn >>

ClockDen == 2

(***************************************************************************)
(* Cursor: Parser and its primitives.                                      *)
(***************************************************************************)
NoErr == [kind |-> "", arg |-> << >>]

Ok(p) == p.err = NoErr

Fatal(p, kind, arg) == [p EXCEPT !.err = [kind |-> kind, arg |-> arg]]

CreateParser == [pos |-> 0, line |-> 1, linePos |-> 1, err |-> NoErr]

ParserEnd == Len(text)

ParserAtEnd(p) == p.pos >= ParserEnd

ParserPeek(p) == IF p.pos < ParserEnd THEN text[p.pos + 1] ELSE NUL

ParserNext(p) ==
    IF ~Ok(p) THEN p
    ELSE IF p.pos > ParserEnd THEN Fatal(p, "reached end of file", << >>)
    ELSE IF ParserPeek(p) = "\n"
         THEN [p EXCEPT !.pos = @ + 1, !.line = @ + 1, !.linePos = 1]
         ELSE [p EXCEPT !.pos = @ + 1, !.linePos = @ + 1]

RECURSIVE ParserNextN(_, _)
ParserNextN(p, count) ==
    IF count = 0 THEN p ELSE ParserNextN(ParserNext(p), count - 1)

RECURSIVE ParserSkipWhitespace(_, _)
ParserSkipWhitespace(p, skipNewline) ==
    IF ~Ok(p) \/ ParserAtEnd(p) THEN p
    ELSE IF ParserPeek(p) = " " \/ (skipNewline /\ ParserPeek(p) = "\n")
         THEN ParserSkipWhitespace(ParserNext(p), skipNewline)
         ELSE p

\* the C string at self->pos (empty at and after the terminating 0)
Rest(p) == SubSeq(text, p.pos + 1, ParserEnd)

StringStartsWith(str, with) ==
    IF Len(str) < Len(with) THEN FALSE ELSE SubSeq(str, 1, Len(with)) = with

StringStartsWithWord(str, with) ==
    LET strLen == Len(str)
        withLen == Len(with)
        startWith == IF strLen < withLen THEN FALSE
                     ELSE SubSeq(str, 1, withLen) = with
    IN  IF ~startWith THEN FALSE
        ELSE IF strLen = withLen THEN TRUE
        ELSE ~IsNumber(str[withLen + 1]) /\ ~IsAlpha(str[withLen + 1])

ParserExpect(p, expect) ==
    IF ~Ok(p) THEN p
    ELSE IF ~StringStartsWith(Rest(p), expect)
         THEN IF expect = << "\n" >>
              THEN Fatal(p, "expected newline", << >>)
              ELSE Fatal(p, "expected", expect)
         ELSE ParserNextN(p, Len(expect))

\* variant of ParserCheck: StringStartsWith in place of
\* StringStartsWithWord
ParserCheckPrefix(p, check) ==
    IF Ok(p) /\ StringStartsWith(Rest(p), check)
    THEN [p |-> ParserNextN(p, Len(check)), ok |-> TRUE]
    ELSE [p |-> p, ok |-> FALSE]

\* result: the parser and the int returned
ParserCheck(p, check) ==
    IF Ok(p) /\ StringStartsWithWord(Rest(p), check)
    THEN [p |-> ParserNextN(p, Len(check)), ok |-> TRUE]
    ELSE [p |-> p, ok |-> FALSE]

(***************************************************************************)
(* Value readers.                                                          *)
(***************************************************************************)
DigitVal(c) == CharCode(c) - CharCode("0")

\* the loop of the integer part: value = value * 10 + digit
RECURSIVE IntegerPart(_, _, _)
IntegerPart(p, value, valid) ==
    IF Ok(p) /\ ~ParserAtEnd(p) /\ IsNumber(ParserPeek(p))
    THEN IntegerPart(ParserNext(p),
                     RAdd(RMul(value, RInt(10)), RInt(DigitVal(ParserPeek(p)))),
                     TRUE)
    ELSE [p |-> p, v |-> value, valid |-> valid]

\* the loop of the fractional part: value += digit * mul; mul *= 0.1
RECURSIVE FractionPart(_, _, _)
FractionPart(p, value, mul) ==
    IF Ok(p) /\ ~ParserAtEnd(p) /\ IsNumber(ParserPeek(p))
    THEN FractionPart(ParserNext(p),
                      RAdd(value, RMul(RInt(DigitVal(ParserPeek(p))), mul)),
                      RMul(mul, R(1, 10)))
    ELSE [p |-> p, v |-> value]

\* lines 621-624: apply negativeness after the entire number has been read
GetFloatSign(fp, negative) ==
    [p |-> fp.p, v |-> IF negative THEN RMul(fp.v, RInt(-1)) ELSE fp.v]

\* lines 600-619: the test of valid, then the fractional part
GetFloatFraction(ip, negative) ==
    IF ~ip.valid
    THEN [p |-> Fatal(ip.p, "expected number", << >>), v |-> ip.v]
    ELSE GetFloatSign(IF ParserPeek(ip.p) = "."
                      THEN FractionPart(ParserNext(ip.p), ip.v, R(1, 10))
                      ELSE [p |-> ip.p, v |-> ip.v],
                      negative)

\* lines 586-598: the sign, then the integer part
GetFloatInteger(p, negative) ==
    GetFloatFraction(IntegerPart(IF negative THEN ParserNext(p) ELSE p,
                                 RInt(0), FALSE),
                     negative)

\* result: the parser and the float returned
ParserGetFloat(p) ==
    IF ~Ok(p) THEN [p |-> p, v |-> RInt(0)]
    ELSE GetFloatInteger(p, ParserPeek(p) = "-")

Vec2Make(x, fy) == [p |-> fy.p, v |-> [x |-> x, y |-> fy.v]]

\* lines 637-640
Vec2Second(fx) ==
    Vec2Make(fx.v,
             ParserGetFloat(
                 ParserSkipWhitespace(
                     ParserExpect(ParserSkipWhitespace(fx.p, FALSE), << "," >>),
                     FALSE)))

ParserGetVec2(p) == Vec2Second(ParserGetFloat(p))

\* variant of StringBody: the end of the text closes the string
RECURSIVE StringBodyToEnd(_, _)
StringBodyToEnd(p, start) ==
    IF ParserAtEnd(p)
    THEN [p |-> p, s |-> SubSeq(text, start + 1, p.pos)]
    ELSE IF ParserPeek(p) = "\""
         THEN [p |-> ParserNext(p), s |-> SubSeq(text, start + 1, p.pos)]
         ELSE StringBodyToEnd(ParserNext(p), start)

\* the loop of ParserGetString from the offset start
RECURSIVE StringBody(_, _)
StringBody(p, start) ==
    IF ParserAtEnd(p)
    THEN [p |-> Fatal(p, "expected", << "\"" >>), s |-> << >>]
    ELSE IF ParserPeek(p) = "\""
         THEN [p |-> ParserNext(p), s |-> SubSeq(text, start + 1, p.pos)]
         ELSE StringBody(ParserNext(p), start)

\* lines 652-673, after the opening quote
StringFrom(p) == IF ~Ok(p) THEN [p |-> p, s |-> << >>] ELSE StringBody(p, p.pos)

\* result: the parser and the text copied to out
ParserGetString(p) == StringFrom(ParserExpect(p, << "\"" >>))

\* lines 686-688, 706-708: skip, "=", skip
AssignPrefix(p) ==
    ParserSkipWhitespace(
        ParserExpect(ParserSkipWhitespace(p, FALSE), << "=" >>), FALSE)

\* lines 690, 710: the whitespace after the value
AssignSuffix(r) == [p |-> ParserSkipWhitespace(r.p, FALSE), v |-> r.v]

ParserAssignFloat(p) == AssignSuffix(ParserGetFloat(AssignPrefix(p)))

ParserAssignVec2(p) == AssignSuffix(ParserGetVec2(AssignPrefix(p)))

(***************************************************************************)
(* FrameData and the formatting done by sprintf.                           *)
(***************************************************************************)
\* CreateFrameData: the defaults, then the fields set by the caller
NewFrameData(filename, x, y, w, h) ==
    [source    |-> filename,
     startTime |-> RInt(0),
     duration  |-> RInt(5),
     fadeIn    |-> RInt(1),
     fadeOut   |-> RInt(1),
     position  |-> [x |-> x, y |-> y],
     size      |-> [x |-> w, y |-> h]]

\* sprintf "%d" of a non-negative int
RECURSIVE NatToChars(_)
NatToChars(i) ==
    IF i < 10 THEN << DigitSeq[i + 1] >>
    ELSE NatToChars(i \div 10) \o << DigitSeq[(i % 10) + 1] >>

\* sprintf "%d"
IntToChars(i) == IF i < 0 THEN << "-" >> \o NatToChars(-i) ELSE NatToChars(i)

KwScreen == << "s", "c", "r", "e", "e", "n" >>
KwImageDir == << "i", "m", "a", "g", "e", "D", "i", "r" >>
KwCaptionDir == << "c", "a", "p", "t", "i", "o", "n", "D", "i", "r" >>
KwSlide == << "s", "l", "i", "d", "e" >>
KwImage == << "i", "m", "a", "g", "e" >>
KwCustomImage == << "c", "u", "s", "t", "o", "m", "i", "m", "a", "g", "e" >>
KwPosition == << "p", "o", "s", "i", "t", "i", "o", "n" >>
KwSize == << "s", "i", "z", "e" >>
KwStart == << "s", "t", "a", "r", "t" >>
KwDuration == << "d", "u", "r", "a", "t", "i", "o", "n" >>
KwFadeIn == << "f", "a", "d", "e", "I", "n" >>
KwFadeOut == << "f", "a", "d", "e", "O", "u", "t" >>

SufJpg == << ".", "j", "p", "g" >>
SufLastJpg == << "-", "l", "a", "s", "t", ".", "j", "p", "g" >>
SufCJpg == << "-", "C", ".", "j", "p", "g" >>
SufLastCJpg == << "L", "a", "s", "t", "-", "C", ".", "j", "p", "g" >>

ErrNoScreen == "screen dimensions have not been set, cannot define an image"
ErrScreenSet == "screen dimensions have already been set"

(***************************************************************************)
(* ParserGetImages: one iteration of the top-level loop.  St is the state  *)
(* the iteration works on; each branch gives the state it leaves.          *)
(***************************************************************************)
St == [parser |-> parser, screen |-> screen, screenSet |-> screenSet,
       cur |-> cur, imageDir |-> imageDir, captionDir |-> captionDir,
       loadStartTime |-> loadStartTime, index |-> index,
       declared |-> declared, totalDuration |-> totalDuration]

\* variant of RequireScreen: the test of screenSet is left out
RequireScreenUnchecked(p, set) == p

\* lines 806-811, 846-851, 975-980: if (!screenSet) { msg(MSG_FATAL, ...); exit(1); }
RequireScreen(p, set) == IF ~set THEN Fatal(p, ErrNoScreen, << >>) ELSE p

\* variant of Link: the item is put at the tail
LinkAtTail(item, list) == list \o << item >>

\* lines 841-842, 1045-1046: item->next = cur; cur = item
Link(item, list) == << item >> \o list

\* variant of RaiseTotal: the test against the running total is left out
RaiseTotalUnguarded(total, item) == RAdd(item.startTime, item.duration)

\* if (start + duration > totalDuration) totalDuration = start + duration
RaiseTotal(total, item) ==
    IF RGt(RAdd(item.startTime, item.duration), total)
    THEN RAdd(item.startTime, item.duration)
    ELSE total

\* line 782: screen = ParserAssignVec2(self), after screenSet = 1
ScreenAssign(a) ==
    [St EXCEPT !.parser = a.p, !.screenSet = TRUE,
               !.screen = IF Ok(a.p) THEN a.v ELSE @]

\* variant of ScreenDirective: the test of screenSet is left out
ScreenDirectiveUnchecked(p) == ScreenAssign(ParserAssignVec2(p))

\* lines 770-785
ScreenDirective(p) ==
    IF screenSet THEN [St EXCEPT !.parser = Fatal(p, ErrScreenSet, << >>)]
    ELSE ScreenAssign(ParserAssignVec2(p))

\* lines 788-791, 797-800: skip, "=", skip, string
DirValue(p) == ParserGetString(AssignPrefix(p))

ImageDirAssign(g) ==
    [St EXCEPT !.parser = g.p, !.imageDir = IF Ok(g.p) THEN g.s ELSE @]

\* lines 786-794
ImageDirDirective(p) == ImageDirAssign(DirValue(p))

CaptionDirAssign(g) ==
    [St EXCEPT !.parser = g.p, !.captionDir = IF Ok(g.p) THEN g.s ELSE @]

\* lines 795-803
CaptionDirDirective(p) == CaptionDirAssign(DirValue(p))

\* lines 829-833, 878-882, 898-902: NewFrameData of the raw position and
\* size divided by the screen, then the timing of an auto-timed item
TimedFrameData(file, pos, size, frameDuration) ==
    [NewFrameData(file, RDiv(pos.x, screen.x), RDiv(pos.y, screen.y),
                  RDiv(size.x, screen.x), RDiv(size.y, screen.y))
     EXCEPT !.startTime = RInt(loadStartTime),
            !.duration = RInt(frameDuration),
            !.fadeIn = RInt(1), !.fadeOut = RInt(1)]

\* lines 835-842
SlideLink(p, image, startIncr) ==
    IF ~Ok(p) THEN [St EXCEPT !.parser = p]
    ELSE [St EXCEPT !.parser = p,
                    !.declared = Append(@, image),
                    !.totalDuration = RaiseTotal(@, image),
                    !.loadStartTime = @ + startIncr,
                    !.cur = Link(image, @)]

\* variant of SlideTimed: startIncr is frameDuration, without the second
\* between two items
SlideTimedNoGap(absFile, p, frameDuration) ==
    SlideLink(p,
              TimedFrameData(absFile, [x |-> RInt(1), y |-> RInt(0)],
                             [x |-> RInt(4), y |-> RInt(4)], frameDuration),
              frameDuration)

\* lines 815-818, 826-833: pos (1, 0), size (4, 4), startIncr
SlideTimed(absFile, p, frameDuration) ==
    SlideLink(p,
              TimedFrameData(absFile, [x |-> RInt(1), y |-> RInt(0)],
                             [x |-> RInt(4), y |-> RInt(4)], frameDuration),
              frameDuration + 1)

\* line 825: int frameDuration = ParserGetFloat(self) + 2
SlideDuration(absFile, f) == SlideTimed(absFile, f.p, RTrunc(RAdd(f.v, RInt(2))))

\* lines 820-824: absFile is imageDir followed by the string read
SlideFile(g) ==
    SlideDuration(imageDir \o g.s, ParserGetFloat(ParserSkipWhitespace(g.p, FALSE)))

\* lines 804-843
SlideDirective(p) ==
    SlideFile(ParserGetString(
                  ParserSkipWhitespace(RequireScreen(p, screenSet), FALSE)))

\* lines 869-876: sprintf of the image path
ImageFile(fileNum) ==
    IF fileNum # 99
    THEN imageDir \o IntToChars(index) \o << "-" >> \o IntToChars(fileNum) \o SufJpg
    ELSE imageDir \o IntToChars(index) \o SufLastJpg

\* lines 889-896: sprintf of the caption path
CaptionFile(fileNum) ==
    IF fileNum # 99
    THEN captionDir \o IntToChars(fileNum) \o SufCJpg
    ELSE captionDir \o SufLastCJpg

\* variant of ImageLink: index stays as it is
ImageLinkSameIndex(p, image, caption) ==
    [St EXCEPT !.parser = p,
               !.declared = @ \o << image, caption >>,
               !.totalDuration = RaiseTotal(@, image),
               !.loadStartTime = @ + 13,
               !.cur = Link(caption, Link(image, @))]

\* lines 904-912
ImageLink(p, image, caption) ==
    [St EXCEPT !.parser = p,
               !.index = @ + 1,
               !.declared = @ \o << image, caption >>,
               !.totalDuration = RaiseTotal(@, image),
               !.loadStartTime = @ + 13,
               !.cur = Link(caption, Link(image, @))]

\* lines 887-902: the caption, of size (1, 1), unless the parser has exited
CaptionCreate(fileNum, image, cposx, cposy, p) ==
    IF ~Ok(p)
    THEN [St EXCEPT !.parser = p, !.index = @ + 1, !.declared = Append(@, image)]
    ELSE ImageLink(p, image,
                   TimedFrameData(CaptionFile(fileNum),
                                  [x |-> RInt(cposx), y |-> RInt(cposy)],
                                  [x |-> RInt(1), y |-> RInt(1)], 12))

\* lines 884-886: the column and the row letter of the caption
CaptionPosition(fileNum, image, cx) ==
    CaptionCreate(fileNum, image, RTrunc(cx.v) - 1,
                  CharCode(ParserPeek(cx.p)) - CharCode("a"), ParserNext(cx.p))

\* lines 869-885: the image, unless the parser has exited, then the caption
ImageCreate(fileNum, size, posx, posy, p) ==
    IF ~Ok(p) THEN [St EXCEPT !.parser = p]
    ELSE CaptionPosition(fileNum,
                         TimedFrameData(ImageFile(fileNum),
                                        [x |-> RInt(posx), y |-> RInt(posy)],
                                        size, 12),
                         ParserGetFloat(ParserSkipWhitespace(p, FALSE)))

\* lines 866-867: the column and the row letter of the image
ImagePosition(fileNum, size, ix) ==
    ImageCreate(fileNum, size, RTrunc(ix.v) - 1,
                CharCode(ParserPeek(ix.p)) - CharCode("a"), ParserNext(ix.p))

\* lines 864-866
ImageSize(fileNum, sz) ==
    ImagePosition(fileNum, sz.v, ParserGetFloat(ParserSkipWhitespace(sz.p, FALSE)))

\* lines 862-864
ImageNumber(fn) ==
    ImageSize(RTrunc(fn.v), ParserGetVec2(ParserSkipWhitespace(fn.p, FALSE)))

\* lines 844-913
ImageDirective(p) ==
    ImageNumber(ParserGetFloat(
                    ParserSkipWhitespace(RequireScreen(p, screenSet), FALSE)))

\* lines 988-996: the locals of a customimage block
DefaultProps ==
    [pos |-> [x |-> RInt(0), y |-> RInt(0)],
     size |-> [x |-> RInt(0), y |-> RInt(0)],
     start |-> RInt(0), duration |-> RInt(5),
     fadeIn |-> RInt(1), fadeOut |-> RInt(1)]

\* lines 999-1032: while (!ParserCheck(self, "}")) { ... }
RECURSIVE PropertyLoop(_, _)

\* lines 1003-1026: the property is assigned and the loop goes on
PropertySet(a, props, key) ==
    PropertyLoop(a.p, [props EXCEPT ![key] = a.v])

\* variant of PropertyKey: a character that starts none of the keys is
\* skipped
PropertyKeySkipUnknown(p, props) ==
    IF ParserCheck(p, KwPosition).ok
    THEN PropertySet(ParserAssignVec2(ParserCheck(p, KwPosition).p), props, "pos")
    ELSE IF ParserCheck(p, KwSize).ok
    THEN PropertySet(ParserAssignVec2(ParserCheck(p, KwSize).p), props, "size")
    ELSE IF ParserCheck(p, KwStart).ok
    THEN PropertySet(ParserAssignFloat(ParserCheck(p, KwStart).p), props, "start")
    ELSE IF ParserCheck(p, KwDuration).ok
    THEN PropertySet(ParserAssignFloat(ParserCheck(p, KwDuration).p), props, "duration")
    ELSE IF ParserCheck(p, KwFadeIn).ok
    THEN PropertySet(ParserAssignFloat(ParserCheck(p, KwFadeIn).p), props, "fadeIn")
    ELSE IF ParserCheck(p, KwFadeOut).ok
    THEN PropertySet(ParserAssignFloat(ParserCheck(p, KwFadeOut).p), props, "fadeOut")
    ELSE PropertyLoop(ParserNext(p), props)

\* lines 1001-1031: the body of the loop, after the whitespace
PropertyKey(p, props) ==
    IF ParserCheck(p, KwPosition).ok
    THEN PropertySet(ParserAssignVec2(ParserCheck(p, KwPosition).p), props, "pos")
    ELSE IF ParserCheck(p, KwSize).ok
    THEN PropertySet(ParserAssignVec2(ParserCheck(p, KwSize).p), props, "size")
    ELSE IF ParserCheck(p, KwStart).ok
    THEN PropertySet(ParserAssignFloat(ParserCheck(p, KwStart).p), props, "start")
    ELSE IF ParserCheck(p, KwDuration).ok
    THEN PropertySet(ParserAssignFloat(ParserCheck(p, KwDuration).p), props, "duration")
    ELSE IF ParserCheck(p, KwFadeIn).ok
    THEN PropertySet(ParserAssignFloat(ParserCheck(p, KwFadeIn).p), props, "fadeIn")
    ELSE IF ParserCheck(p, KwFadeOut).ok
    THEN PropertySet(ParserAssignFloat(ParserCheck(p, KwFadeOut).p), props, "fadeOut")
    ELSE [p |-> Fatal(p, "unexpected character", << >>), props |-> props]

PropertyLoop(p, props) ==
    IF ~Ok(p) THEN [p |-> p, props |-> props]
    ELSE IF ParserCheck(p, << "}" >>).ok
    THEN [p |-> ParserCheck(p, << "}" >>).p, props |-> props]
    ELSE PropertyKey(ParserSkipWhitespace(p, TRUE), props)

\* lines 1037-1041
CustomFrameData(file, props) ==
    [NewFrameData(file, RDiv(props.pos.x, screen.x), RDiv(props.pos.y, screen.y),
                  RDiv(props.size.x, screen.x), RDiv(props.size.y, screen.y))
     EXCEPT !.startTime = props.start,
            !.duration = props.duration,
            !.fadeIn = props.fadeIn,
            !.fadeOut = props.fadeOut]

\* lines 1043-1046
CustomLink(p, info) ==
    IF ~Ok(p) THEN [St EXCEPT !.parser = p]
    ELSE [St EXCEPT !.parser = p,
                    !.declared = Append(@, info),
                    !.totalDuration = RaiseTotal(@, info),
                    !.cur = Link(info, @)]

\* lines 1034-1037: skip, newline, then the item
CustomClose(file, lp) ==
    CustomLink(ParserExpect(ParserSkipWhitespace(lp.p, FALSE), << "\n" >>),
               CustomFrameData(file, lp.props))

\* lines 985-1032: skip, "{", then the properties
CustomBlock(g) ==
    CustomClose(g.s,
                PropertyLoop(ParserExpect(ParserSkipWhitespace(g.p, TRUE), << "{" >>),
                             DefaultProps))

\* lines 973-1047
CustomImageDirective(p) ==
    CustomBlock(ParserGetString(
                    ParserSkipWhitespace(RequireScreen(p, screenSet), FALSE)))

\* variant of SkipCharacter: the cursor stays where it is
SkipCharacterStay(p) == [St EXCEPT !.parser = p]

\* lines 1048-1053
SkipCharacter(p) == [St EXCEPT !.parser = ParserNext(p)]

\* lines 770-1053: the chain of if (ParserCheck(...)) ... else
Dispatch(p) ==
    IF ParserCheck(p, KwScreen).ok
    THEN ScreenDirective(ParserCheck(p, KwScreen).p)
    ELSE IF ParserCheck(p, KwImageDir).ok
    THEN ImageDirDirective(ParserCheck(p, KwImageDir).p)
    ELSE IF ParserCheck(p, KwCaptionDir).ok
    THEN CaptionDirDirective(ParserCheck(p, KwCaptionDir).p)
    ELSE IF ParserCheck(p, KwSlide).ok
    THEN SlideDirective(ParserCheck(p, KwSlide).p)
    ELSE IF ParserCheck(p, KwImage).ok
    THEN ImageDirective(ParserCheck(p, KwImage).p)
    ELSE IF ParserCheck(p, KwCustomImage).ok
    THEN CustomImageDirective(ParserCheck(p, KwCustomImage).p)
    ELSE SkipCharacter(p)

\* lines 768-1053: the body of the loop
LoopBody == Dispatch(ParserSkipWhitespace(parser, TRUE))

(***************************************************************************)
(* The descriptions the parser is run on: every concatenation of at most   *)
(* MaxDirectives of the fragments below.  A fragment written with a final  *)
(* newline ends with "\n".                                                 *)
(***************************************************************************)
\* screen = 2, 2
FragScreen ==
    << "s", "c", "r", "e", "e", "n", " ", "=", " ", "2", ",", " ", "2",
       "\n" >>

\* screen = 0, 2
FragScreenZero ==
    << "s", "c", "r", "e", "e", "n", " ", "=", " ", "0", ",", " ", "2",
       "\n" >>

\* slide "a" 1
FragSlide ==
    << "s", "l", "i", "d", "e", " ", "\"", "a", "\"", " ", "1", "\n" >>

\* image 7 2,2 1a 2b
FragImage ==
    << "i", "m", "a", "g", "e", " ", "7", " ", "2", ",", "2", " ", "1", "a",
       " ", "2", "b", "\n" >>

\* customimage "c" { duration = 0.5 }
FragCustomShort ==
    << "c", "u", "s", "t", "o", "m", "i", "m", "a", "g", "e", " ", "\"",
       "c", "\"", " ", "{", " ", "d", "u", "r", "a", "t", "i", "o", "n",
       " ", "=", " ", "0", ".", "5", " ", "}", "\n" >>

\* customimage "d" { start = 2 duration = 1.5 }
FragCustomLate ==
    << "c", "u", "s", "t", "o", "m", "i", "m", "a", "g", "e", " ", "\"",
       "d", "\"", " ", "{", " ", "s", "t", "a", "r", "t", " ", "=", " ",
       "2", " ", "d", "u", "r", "a", "t", "i", "o", "n", " ", "=", " ", "1",
       ".", "5", " ", "}", "\n" >>

\* x and a space, no newline
FragJunk ==
    << "x", " " >>

\* image 1 1,1 1   with nothing after it
FragImageCut ==
    << "i", "m", "a", "g", "e", " ", "1", " ", "1", ",", "1", " ", "1" >>

\* customimage "m" {   with start = 2, size = 1, 1 and } each on a line of its own
FragCustomLines ==
    << "c", "u", "s", "t", "o", "m", "i", "m", "a", "g", "e", " ", "\"",
       "m", "\"", " ", "{", "\n", "s", "t", "a", "r", "t", " ", "=", " ",
       "2", "\n", "s", "i", "z", "e", " ", "=", " ", "1", ",", " ", "1",
       "\n", "}", "\n" >>

\* customimage "u" { color = 1 }
FragCustomUnknown ==
    << "c", "u", "s", "t", "o", "m", "i", "m", "a", "g", "e", " ", "\"",
       "u", "\"", " ", "{", " ", "c", "o", "l", "o", "r", " ", "=", " ",
       "1", " ", "}", "\n" >>

\* slide "a" -5
FragSlideNegative ==
    << "s", "l", "i", "d", "e", " ", "\"", "a", "\"", " ", "-", "5", "\n" >>

\* slide "abc   with nothing after it
FragSlideOpen ==
    << "s", "l", "i", "d", "e", " ", "\"", "a", "b", "c" >>

\* image "abc   with nothing after it
FragImageOpen ==
    << "i", "m", "a", "g", "e", " ", "\"", "a", "b", "c" >>

\* image 1 1,1 1a 1   with nothing after it
FragCaptionCut ==
    << "i", "m", "a", "g", "e", " ", "1", " ", "1", ",", "1", " ", "1",
       "a", " ", "1" >>

Fragments ==
    << FragScreen, FragScreenZero, FragSlide, FragImage,
       FragCustomShort, FragCustomLate, FragJunk, FragImageCut,
       FragCustomLines, FragCustomUnknown, FragSlideNegative,
       FragSlideOpen, FragImageOpen, FragCaptionCut >>

RECURSIVE Concat(_)
Concat(fs) == IF fs = << >> THEN << >> ELSE Head(fs) \o Concat(Tail(fs))

\* the sequences of at most n fragments
RECURSIVE FragmentSeqs(_)
FragmentSeqs(n) ==
    IF n = 0 THEN { << >> }
    ELSE LET shorter == FragmentSeqs(n - 1)
         IN  shorter \cup { Append(fs, Fragments[i]) :
                            fs \in shorter, i \in DOMAIN Fragments }

Inputs == { Concat(fs) : fs \in FragmentSeqs(MaxDirectives) }

\* slide "b" 1.5
FragSlideFraction ==
    << "s", "l", "i", "d", "e", " ", "\"", "b", "\"", " ", "1", ".", "5",
       "\n" >>

\* imageDir = "p/"
FragImageDir ==
    << "i", "m", "a", "g", "e", "D", "i", "r", " ", "=", " ", "\"", "p",
       "/", "\"", "\n" >>

\* captionDir = "q/"
FragCaptionDir ==
    << "c", "a", "p", "t", "i", "o", "n", "D", "i", "r", " ", "=", " ",
       "\"", "q", "/", "\"", "\n" >>

\* myslide "a" 1
FragMySlide ==
    << "m", "y", "s", "l", "i", "d", "e", " ", "\"", "a", "\"", " ", "1",
       "\n" >>

\* the directives written after the screen in the descriptions of
\* SequenceInputs
SequenceFragments ==
    << FragSlide, FragSlideFraction, FragImage, FragCustomShort,
       FragImageDir, FragCaptionDir, FragMySlide >>

\* the sequences of at most n of them
RECURSIVE SequenceSeqs(_)
SequenceSeqs(n) ==
    IF n = 0 THEN { << >> }
    ELSE LET shorter == SequenceSeqs(n - 1)
         IN  shorter \cup { Append(fs, SequenceFragments[i]) :
                            fs \in shorter, i \in DOMAIN SequenceFragments }

\* the descriptions made of screen = 2, 2 and at most MaxDirectives of the
\* directives above
SequenceInputs == { FragScreen \o Concat(fs) : fs \in SequenceSeqs(MaxDirectives) }

\* the descriptions the playback is run on: loops of 1, 3 and 3.5 seconds
PlayInputs ==
    { << >>,
      FragScreen \o FragSlide,
      FragScreen \o FragCustomShort,
      FragScreen \o FragCustomLate \o FragSlide }

(***************************************************************************)
(* Playback: FrameDataDraw, keyboard, display.                             *)
(***************************************************************************)
Sentinel == 1000000

\* variant of Alpha: the test of the fade-out comes before the fade-in
AlphaFadeOutFirst(self, ft) ==
    IF RGe(ft, self.startTime)
    THEN LET curDuration == RSub(ft, self.startTime)
         IN  IF RLt(curDuration, self.duration)
             THEN IF RGt(self.fadeOut, RInt(0))
                     /\ RLt(RSub(self.duration, curDuration), self.fadeOut)
                  THEN RDiv(RSub(self.duration, curDuration), self.fadeOut)
                  ELSE IF RGt(self.fadeIn, RInt(0)) /\ RLt(curDuration, self.fadeIn)
                  THEN RDiv(curDuration, self.fadeIn)
                  ELSE RInt(1)
             ELSE RInt(0)
    ELSE RInt(0)

\* lines 240-268: the alpha FrameDataDraw computes for an item
Alpha(self, ft) ==
    IF RGe(ft, self.startTime)
    THEN LET curDuration == RSub(ft, self.startTime)
         IN  IF RLt(curDuration, self.duration)
             THEN IF RGt(self.fadeIn, RInt(0)) /\ RLt(curDuration, self.fadeIn)
                  THEN RDiv(curDuration, self.fadeIn)
                  ELSE IF RGt(self.fadeOut, RInt(0))
                          /\ RLt(RSub(self.duration, curDuration), self.fadeOut)
                  THEN RDiv(RSub(self.duration, curDuration), self.fadeOut)
                  ELSE RInt(1)
             ELSE RInt(0)
    ELSE RInt(0)

\* variant of FrameDataDraw: >= in place of >
FrameDataDrawAtZero(self, ft) == RGe(Alpha(self, ft), RInt(0))

\* lines 270-283: kuhl_geometry_draw is called
FrameDataDraw(self, ft) == RGt(Alpha(self, ft), RInt(0))

\* lines 371-376: the walk of the list, giving the indexes drawn in order
RECURSIVE DrawList(_, _, _)
DrawList(list, i, ft) ==
    IF i > Len(list) THEN << >>
    ELSE (IF FrameDataDraw(list[i], ft) THEN << i >> ELSE << >>)
         \o DrawList(list, i + 1, ft)

\* variant of WrapLoop: an if in place of the while
WrapOnce(ft, total, n) ==
    IF RGt(ft, total) THEN [ft |-> RSub(ft, total), n |-> n + 1]
    ELSE [ft |-> ft, n |-> n]

\* line 312: while (frameTime > totalDuration) frameTime -= totalDuration
RECURSIVE WrapLoop(_, _, _)
WrapLoop(ft, total, n) ==
    IF RGt(ft, total) THEN WrapLoop(RSub(ft, total), total, n + 1)
    ELSE [ft |-> ft, n |-> n]

\* variant of SongStarts: <= in place of <
SongStartsOrEqual(ft, last) == ~RGt(ft, last)

\* variant of SongStarts: > in place of <
SongStartsReversed(ft, last) == RGt(ft, last)

\* line 315: if (frameTime < lastFrameTime && dgr_is_master())
SongStarts(ft, last) == RLt(ft, last)

glfwGetTime == R(now, ClockDen)

(***************************************************************************)
(* Initial state: the statics of the file and the locals of                *)
(* ParserGetImages at its first loop test.                                 *)
(***************************************************************************)
InitWith(inputs) ==
    /\ text \in inputs
    /\ parser = CreateParser
    /\ screen = [x |-> RInt(0), y |-> RInt(0)]   \* not read before screenSet
    /\ screenSet = FALSE
    /\ cur = << >>
    /\ imageDir = << >>
    /\ captionDir = << >>
    /\ loadStartTime = 0
    /\ index = 1
    /\ declared = << >>
    /\ pc = "parsing"
    /\ imageInfo = << >>
    /\ lastFrameTime = RInt(Sentinel)
    /\ frameTime = RInt(0)
    /\ frameStart = RInt(0)
    /\ totalDuration = RInt(1)
    /\ started = FALSE
    /\ shouldClose = FALSE
    /\ now = 0
    /\ song = FALSE
    /\ wraps = 0
    /\ startSinceTick = FALSE
    /\ tickAfterStart = FALSE
    /\ sinceSong = { }
    /\ songAfter = { }
    /\ songCount = 0
    /\ drawn = << >>

Init == InitWith(PlayInputs)

InitParse == InitWith(Inputs)

(***************************************************************************)
(* Actions.                                                                *)
(***************************************************************************)
\* one iteration of while (!ParserAtEnd(self)) in ParserGetImages
ParseDirective ==
    /\ pc = "parsing"
    /\ ~ParserAtEnd(parser)
    /\ LET st == LoopBody
       IN  /\ parser' = st.parser
           /\ screen' = st.screen
           /\ screenSet' = st.screenSet
           /\ cur' = st.cur
           /\ imageDir' = st.imageDir
           /\ captionDir' = st.captionDir
           /\ loadStartTime' = st.loadStartTime
           /\ index' = st.index
           /\ declared' = st.declared
           /\ totalDuration' = st.totalDuration
           /\ pc' = IF Ok(st.parser) THEN "parsing" ELSE "exited"
    /\ UNCHANGED << text, imageInfo, now >>
    /\ UNCHANGED playVars

\* ParserGetImages returns cur; main lines 1095-1098
ParseReturn ==
    /\ pc = "parsing"
    /\ ParserAtEnd(parser)
    /\ imageInfo' = cur
    /\ frameStart' = glfwGetTime
    /\ pc' = "running"
    /\ UNCHANGED parseVars
    /\ UNCHANGED << lastFrameTime, frameTime, totalDuration, started,
                    shouldClose, now, song, wraps, startSinceTick,
                    tickAfterStart, sinceSong, songAfter, songCount, drawn >>

\* the clock of glfwGetTime moves on
ClockAdvance ==
    /\ pc = "running"
    /\ \E d \in 1..MaxStep :
          /\ now + d <= MaxClock
          /\ now' = now + d
    /\ UNCHANGED parseVars
    /\ UNCHANGED << pc, imageInfo, totalDuration >>
    /\ UNCHANGED playVars

\* variant of Keyboard: Q and ESCAPE also clear started
KeyboardStops ==
    /\ pc = "running"
    /\ \E key \in { "Q", "ESCAPE", "SPACE", "OTHER" }, action \in { "PRESS", "RELEASE" } :
          IF action # "PRESS"
          THEN UNCHANGED << started, frameStart, shouldClose, startSinceTick,
                            sinceSong >>
          ELSE CASE key \in { "Q", "ESCAPE" } ->
                      /\ shouldClose' = TRUE
                      /\ started' = FALSE
                      /\ UNCHANGED << frameStart, startSinceTick, sinceSong >>
                 [] key = "SPACE" ->
                      /\ started' = TRUE
                      /\ frameStart' = glfwGetTime
                      /\ startSinceTick' = TRUE
                      /\ sinceSong' = sinceSong \cup { "start" }
                      /\ UNCHANGED shouldClose
                 [] OTHER ->
                      UNCHANGED << started, frameStart, shouldClose,
                                   startSinceTick, sinceSong >>
    /\ UNCHANGED parseVars
    /\ UNCHANGED << pc, imageInfo, totalDuration, now, lastFrameTime,
                    frameTime, song, wraps, tickAfterStart, songAfter,
                    songCount, drawn >>

\* variant of Keyboard: SPACE records frameStart only while started is
\* not set
KeyboardStartOnce ==
    /\ pc = "running"
    /\ \E key \in { "Q", "ESCAPE", "SPACE", "OTHER" }, action \in { "PRESS", "RELEASE" } :
          IF action # "PRESS"
          THEN UNCHANGED << started, frameStart, shouldClose, startSinceTick,
                            sinceSong >>
          ELSE CASE key \in { "Q", "ESCAPE" } ->
                      /\ shouldClose' = TRUE
                      /\ UNCHANGED << started, frameStart, startSinceTick,
                                      sinceSong >>
                 [] key = "SPACE" ->
                      /\ started' = TRUE
                      /\ frameStart' = IF started THEN frameStart ELSE glfwGetTime
                      /\ startSinceTick' = TRUE
                      /\ sinceSong' = sinceSong \cup { "start" }
                      /\ UNCHANGED shouldClose
                 [] OTHER ->
                      UNCHANGED << started, frameStart, shouldClose,
                                   startSinceTick, sinceSong >>
    /\ UNCHANGED parseVars
    /\ UNCHANGED << pc, imageInfo, totalDuration, now, lastFrameTime,
                    frameTime, song, wraps, tickAfterStart, songAfter,
                    songCount, drawn >>

\* keyboard(), called from glfwPollEvents
Keyboard ==
    /\ pc = "running"
    /\ \E key \in { "Q", "ESCAPE", "SPACE", "OTHER" }, action \in { "PRESS", "RELEASE" } :
          IF action # "PRESS"
          THEN UNCHANGED << started, frameStart, shouldClose, startSinceTick,
                            sinceSong >>
          ELSE CASE key \in { "Q", "ESCAPE" } ->
                      /\ shouldClose' = TRUE
                      /\ UNCHANGED << started, frameStart, startSinceTick,
                                      sinceSong >>
                 [] key = "SPACE" ->
                      /\ started' = TRUE
                      /\ frameStart' = glfwGetTime
                      /\ startSinceTick' = TRUE
                      /\ sinceSong' = sinceSong \cup { "start" }
                      /\ UNCHANGED shouldClose
                 [] OTHER ->
                      UNCHANGED << started, frameStart, shouldClose,
                                   startSinceTick, sinceSong >>
    /\ UNCHANGED parseVars
    /\ UNCHANGED << pc, imageInfo, totalDuration, now, lastFrameTime,
                    frameTime, song, wraps, tickAfterStart, songAfter,
                    songCount, drawn >>

\* variant of Display: the frame time is computed whether started is set
\* or not
DisplayUnguarded ==
    /\ pc = "running"
    /\ ~shouldClose
    /\ LET w == WrapLoop(RSub(glfwGetTime, frameStart), totalDuration, 0)
           play == SongStarts(w.ft, lastFrameTime)
           happened == sinceSong \cup (IF w.n > 0 THEN { "wrap" } ELSE { })
       IN  /\ frameTime' = w.ft
           /\ wraps' = w.n
           /\ song' = play
           /\ lastFrameTime' = w.ft
           /\ drawn' = DrawList(imageInfo, 1, w.ft)
           /\ sinceSong' = IF play THEN { } ELSE happened
           /\ songAfter' = IF play THEN happened ELSE songAfter
           /\ songCount' = IF play /\ songCount < 2 THEN songCount + 1
                            ELSE songCount
    /\ tickAfterStart' = (started /\ startSinceTick)
    /\ startSinceTick' = FALSE
    /\ UNCHANGED parseVars
    /\ UNCHANGED << pc, imageInfo, totalDuration, now, frameStart, started,
                    shouldClose >>

\* display(), called from the loop of main while the window is open
Display ==
    /\ pc = "running"
    /\ ~shouldClose
    /\ IF started
       THEN LET w == WrapLoop(RSub(glfwGetTime, frameStart), totalDuration, 0)
                play == SongStarts(w.ft, lastFrameTime)
                happened == sinceSong \cup (IF w.n > 0 THEN { "wrap" } ELSE { })
            IN  /\ frameTime' = w.ft
                /\ wraps' = w.n
                /\ song' = play
                /\ lastFrameTime' = w.ft
                /\ drawn' = DrawList(imageInfo, 1, w.ft)
                /\ sinceSong' = IF play THEN { } ELSE happened
                /\ songAfter' = IF play THEN happened ELSE songAfter
                /\ songCount' = IF play /\ songCount < 2 THEN songCount + 1
                                 ELSE songCount
       ELSE /\ UNCHANGED << frameTime, lastFrameTime, sinceSong, songAfter,
                            songCount >>
            /\ wraps' = 0
            /\ song' = FALSE
            /\ drawn' = << >>
    /\ tickAfterStart' = (started /\ startSinceTick)
    /\ startSinceTick' = FALSE
    /\ UNCHANGED parseVars
    /\ UNCHANGED << pc, imageInfo, totalDuration, now, frameStart, started,
                    shouldClose >>

\* while (!glfwWindowShouldClose(...)) fails; exit(EXIT_SUCCESS)
MainExit ==
    /\ pc = "running"
    /\ shouldClose
    /\ pc' = "exited"
    /\ UNCHANGED parseVars
    /\ UNCHANGED << imageInfo, totalDuration, now >>
    /\ UNCHANGED playVars

Next ==
    \/ ParseDirective
    \/ ParseReturn
    \/ ClockAdvance
    \/ Keyboard
    \/ Display
    \/ MainExit

Spec == Init /\ [][Next]_vars

\* the parser alone, on every description of Inputs
NextParse ==
    \/ ParseDirective
    \/ ParseReturn

SpecParse == InitParse /\ [][NextParse]_vars

\* the parser alone, on the descriptions of SequenceInputs
InitSequence == InitWith(SequenceInputs)

SpecSequence == InitSequence /\ [][NextParse]_vars

(***************************************************************************)
(* Properties.                                                             *)
(***************************************************************************)
RECURSIVE Reverse(_)
Reverse(list) ==
    IF list = << >> THEN << >> ELSE Append(Reverse(Tail(list)), Head(list))

ItemEnd(item) == RAdd(item.startTime, item.duration)

\* the greatest of floor and the ends of the items of list
RECURSIVE MaxEnd(_, _)
MaxEnd(list, floor) ==
    IF list = << >> THEN floor
    ELSE LET m == MaxEnd(Tail(list), floor)
         IN  IF RGt(ItemEnd(Head(list)), m) THEN ItemEnd(Head(list)) ELSE m

\* the keyword the next iteration of the loop of ParserGetImages finds
NextWord(kw) ==
    StringStartsWithWord(Rest(ParserSkipWhitespace(parser, TRUE)), kw)

\* glfwGetTime() - frameStart
RawElapsed == RSub(glfwGetTime, frameStart)

\* some display() has run with started set
Ticked == lastFrameTime # RInt(Sentinel)

\* C1 (as stated): after parsing, totalDuration is the greatest
\* startTime + duration of the items produced, also when every item ends
\* before 1 second.
C1_TotalIsMaxOfItems ==
    (pc = "running" /\ imageInfo # << >>)
        => totalDuration = MaxEnd(Tail(imageInfo), ItemEnd(Head(imageInfo)))

\* C1 (amended): after parsing, totalDuration is the greatest of 1 (its
\* initial value) and the startTime + duration of the items produced.
C1_TotalIsMaxOfItemsAndOne ==
    pc = "running" => totalDuration = MaxEnd(imageInfo, RInt(1))

\* C1 witness: a parsed description of three items where the total is the
\* end (4 + 12) of the auto-timed image and caption that follow a slide
C1_Witness ==
    /\ pc = "running"
    /\ Len(imageInfo) = 3
    /\ totalDuration = RInt(16)
    /\ \E i \in DOMAIN imageInfo : RLt(ItemEnd(imageInfo[i]), totalDuration)

\* C2 (as stated): after every tick while Running, frameTime is in
\* [0, totalDuration): never negative, never equal to or above totalDuration.
C2_FrameTimeBelowTotal ==
    Ticked => RGe(frameTime, RInt(0)) /\ RLt(frameTime, totalDuration)

\* C2 (amended): after every tick while Running, frameTime is in
\* [0, totalDuration]: never negative, never above totalDuration.
C2_FrameTimeWithinTotal ==
    Ticked => RGe(frameTime, RInt(0)) /\ ~RGt(frameTime, totalDuration)

\* C2 witness: a tick that subtracted at least twice and left frameTime
\* strictly inside the loop
C2_Witness ==
    /\ Ticked
    /\ wraps >= 2
    /\ RGt(frameTime, RInt(0))
    /\ RLt(frameTime, totalDuration)

C5_SingleWrap ==
    [][ ( /\ Display
          /\ started
          /\ Ticked
          /\ RGt(RawElapsed, totalDuration)
          /\ RLt(RawElapsed, RMul(RInt(2), totalDuration))
          /\ RLt(RSub(RawElapsed, totalDuration), lastFrameTime) )
        => ( /\ frameTime' = RSub(RawElapsed, totalDuration)
             /\ wraps' = 1
             /\ song' ) ]_vars

\* C5 witness: the state after such a tick, in a loop of 3 seconds: raw
\* elapsed 4 seconds gives frameTime 1 and the sound
C5_Witness ==
    /\ song
    /\ wraps = 1
    /\ ~tickAfterStart
    /\ totalDuration = RInt(3)
    /\ RawElapsed = RInt(4)
    /\ frameTime = RInt(1)

\* C6: the list read head to tail visits the items in the reverse of the
\* order they were declared in.
C6_ListIsReverseOfDeclaration ==
    /\ pc = "parsing" => cur = Reverse(declared)
    /\ pc = "running" => imageInfo = Reverse(declared)

\* C6 witness: three different items parsed
C6_Witness ==
    /\ pc = "running"
    /\ Len(declared) = 3
    /\ declared[1] # declared[2]
    /\ declared[2] # declared[3]
    /\ declared[1] # declared[3]
    /\ imageInfo[1] = declared[3]
    /\ imageInfo[3] = declared[1]

\* C7: an item directive (slide, image, customimage) reached while no
\* screen directive has been parsed ends parsing with the fatal error, and
\* no item has been created.
C7_ItemBeforeScreenIsFatal ==
    [][ ( /\ ParseDirective
          /\ ~screenSet
          /\ (NextWord(KwSlide) \/ NextWord(KwImage) \/ NextWord(KwCustomImage)) )
        => ( /\ pc' = "exited"
             /\ parser'.err.kind = ErrNoScreen
             /\ declared' = << >>
             /\ cur' = << >> ) ]_vars

\* C7 witness: parsing has ended on that error, nothing created
C7_Witness ==
    /\ pc = "exited"
    /\ parser.err.kind = ErrNoScreen
    /\ ~screenSet
    /\ declared = << >>

\* C8: the screen is set at most once; a screen directive reached after
\* the screen was set is a fatal error at that directive, whatever lies
\* between the two.
C8_SecondScreenIsFatal ==
    [][ /\ screenSet => (screenSet' /\ screen' = screen)
        /\ (ParseDirective /\ screenSet /\ NextWord(KwScreen))
             => (pc' = "exited" /\ parser'.err.kind = ErrScreenSet) ]_vars

\* C8 witness: parsing has ended on the second screen directive, with an
\* item directive between the two
C8_Witness ==
    /\ pc = "exited"
    /\ parser.err.kind = ErrScreenSet
    /\ declared # << >>

\* C9: when an item directive has been processed, the screen had been set
\* and is non-zero on both axes.
C9_ScreenNonZeroWhenItemProcessed ==
    declared # << >> => (screenSet /\ screen.x.n # 0 /\ screen.y.n # 0)

\* C10: the cursor always satisfies 0 <= pos <= end.
C10_CursorWithinText == parser.pos >= 0 /\ parser.pos <= ParserEnd

\* the piecewise function alpha is specified by
AlphaReference(item, ft) ==
    LET elapsed == RSub(ft, item.startTime)
        left == RSub(item.duration, elapsed)
    IN  IF RLt(ft, item.startTime) \/ RGe(elapsed, item.duration) THEN RInt(0)
        ELSE IF RGt(item.fadeIn, RInt(0)) /\ RLt(elapsed, item.fadeIn)
        THEN RDiv(elapsed, item.fadeIn)
        ELSE IF RGt(item.fadeOut, RInt(0)) /\ RLt(left, item.fadeOut)
        THEN RDiv(left, item.fadeOut)
        ELSE RInt(1)

\* the item of the boundary scenario: start 10, duration 5, fades of 1
BoundaryItem ==
    [NewFrameData(<< >>, RInt(0), RInt(0), RInt(1), RInt(1))
     EXCEPT !.startTime = RInt(10), !.duration = RInt(5),
            !.fadeIn = RInt(1), !.fadeOut = RInt(1)]

\* the values of frameTime the clock of the model can give
FrameTimes == { R(t, ClockDen) : t \in 0..MaxClock }

\* C11: for every item of the list and every frameTime, the alpha computed
\* is the piecewise function (0 before the start and from the end on, the
\* fade-in ratio first, then the fade-out ratio, else 1) and lies in
\* [0, 1]; the item with start 10, duration 5 and fades of 1 gets 0, 0.5,
\* 1, 0.5, 0 at 9.9, 10.5, 12.5, 14.5, 15.1.
C11_AlphaIsPiecewise ==
    /\ pc = "running" =>
          \A i \in DOMAIN imageInfo, ft \in FrameTimes \cup { frameTime } :
             /\ Alpha(imageInfo[i], ft) = AlphaReference(imageInfo[i], ft)
             /\ RGe(Alpha(imageInfo[i], ft), RInt(0))
             /\ ~RGt(Alpha(imageInfo[i], ft), RInt(1))
    /\ Alpha(BoundaryItem, R(99, 10)) = RInt(0)
    /\ Alpha(BoundaryItem, R(21, 2)) = R(1, 2)
    /\ Alpha(BoundaryItem, R(25, 2)) = RInt(1)
    /\ Alpha(BoundaryItem, R(29, 2)) = R(1, 2)
    /\ Alpha(BoundaryItem, R(151, 10)) = RInt(0)

\* C11 witness: a tick has computed frameTime inside both fade windows of
\* an item, and the alpha of the item is the fade-in ratio, which differs
\* from the fade-out ratio
C11_Witness ==
    /\ started
    /\ Ticked
    /\ \E i \in DOMAIN imageInfo :
          LET item == imageInfo[i]
              elapsed == RSub(frameTime, item.startTime)
              left == RSub(item.duration, elapsed)
          IN  /\ RGe(elapsed, RInt(0))
              /\ RLt(elapsed, item.duration)
              /\ RLt(elapsed, item.fadeIn)
              /\ RLt(left, item.fadeOut)
              /\ Alpha(item, frameTime) = RDiv(elapsed, item.fadeIn)
              /\ Alpha(item, frameTime) # RDiv(left, item.fadeOut)

\* C12: a tick issues a draw call for an item exactly when started is set
\* and the alpha of the item at the frameTime of the tick is greater than
\* 0; an item whose alpha is 0 is not drawn, nothing is drawn by a tick
\* while started is not set, and no other step draws.
C12_DrawnIffVisible ==
    [][ /\ (Display /\ started) =>
              \A i \in DOMAIN imageInfo :
                 (i \in Range(drawn'))
                    <=> RGt(Alpha(imageInfo[i], frameTime'), RInt(0))
        /\ (Display /\ ~started) => drawn' = << >>
        /\ ~Display => drawn' = drawn ]_vars

\* C12 witness: a tick at the first instant of the fade-in of one item has
\* left that item out and drawn another one
C12_Witness ==
    /\ started
    /\ Ticked
    /\ \E i, j \in DOMAIN imageInfo :
          /\ frameTime = imageInfo[i].startTime
          /\ RGt(imageInfo[i].fadeIn, RInt(0))
          /\ Alpha(imageInfo[i], frameTime) = RInt(0)
          /\ i \notin Range(drawn)
          /\ j \in Range(drawn)

\* the next iteration of the loop of ParserGetImages starts at frag
DirectiveIs(frag) ==
    StringStartsWith(Rest(ParserSkipWhitespace(parser, TRUE)), frag)

\* the customimage blocks of the descriptions, with the values each one
\* gives (position and size as written, before the division by screen)
CustomBlocks ==
    { [text |-> FragCustomShort, start |-> RInt(0), duration |-> R(1, 2),
       size |-> RInt(0)],
      [text |-> FragCustomLate, start |-> RInt(2), duration |-> R(3, 2),
       size |-> RInt(0)],
      [text |-> FragCustomLines, start |-> RInt(2), duration |-> RInt(5),
       size |-> RInt(1)] }

\* C13: after the screen is set, a customimage block of key = value
\* properties separated by spaces or newlines, with the closing brace on
\* the line of the last property or on the line after it, parses without
\* error and adds exactly one item with the values given and the defaults
\* (start 0, duration 5, fades 1, position and size (0, 0)) elsewhere.
C13_CustomBlockParses ==
    [][ \A b \in CustomBlocks :
          (ParseDirective /\ screenSet /\ DirectiveIs(b.text))
            => ( /\ Ok(parser')
                 /\ Len(cur') = Len(cur) + 1
                 /\ Tail(cur') = cur
                 /\ Head(cur').startTime = b.start
                 /\ Head(cur').duration = b.duration
                 /\ Head(cur').fadeIn = RInt(1)
                 /\ Head(cur').fadeOut = RInt(1)
                 /\ Head(cur').position
                       = [x |-> RDiv(RInt(0), screen.x), y |-> RDiv(RInt(0), screen.y)]
                 /\ Head(cur').size
                       = [x |-> RDiv(b.size, screen.x), y |-> RDiv(b.size, screen.y)] )
      ]_vars

\* the offset of the first character at or after offset i that is in (or,
\* with inside = FALSE, not in) the set chars; Len(text) when there is none
RECURSIVE ScanTo(_, _, _)
ScanTo(i, chars, inside) ==
    IF i >= Len(text) THEN Len(text)
    ELSE IF (text[i + 1] \in chars) = inside THEN i
    ELSE ScanTo(i + 1, chars, inside)

\* the line and the column (both from 1) of the character at offset i
LineAt(i) == 1 + Cardinality({ j \in 1..i : text[j] = "\n" })

\* the number of characters of the text up to the last newline among the
\* first i
RECURSIVE LastNewline(_)
LastNewline(i) ==
    IF i = 0 THEN 0 ELSE IF text[i] = "\n" THEN i ELSE LastNewline(i - 1)

ColAt(i) == i + 1 - LastNewline(i)

\* the keys of a customimage block
PropertyKeys == { KwPosition, KwSize, KwStart, KwDuration, KwFadeIn, KwFadeOut }

\* the offsets of the customimage block the next iteration of the loop
\* starts at: the opening quote, the closing quote, the brace and the
\* first key; block is FALSE when the text there is not of that form
BlockAt ==
    LET word == ParserSkipWhitespace(parser, TRUE).pos
        quote == ScanTo(word + Len(KwCustomImage), { " " }, FALSE)
        close == ScanTo(quote + 1, { "\"" }, TRUE)
        brace == ScanTo(close + 1, { " ", "\n" }, FALSE)
        key == ScanTo(brace + 1, { " ", "\n" }, FALSE)
    IN  [block |-> /\ NextWord(KwCustomImage)
                   /\ quote < Len(text) /\ text[quote + 1] = "\""
                   /\ close < Len(text)
                   /\ brace < Len(text) /\ text[brace + 1] = "{",
         key |-> key]

\* the word at offset i is none of the keys and not the closing brace
UnknownKeyAt(i) ==
    /\ i < Len(text)
    /\ text[i + 1] # "}"
    /\ \A kw \in PropertyKeys :
          ~StringStartsWithWord(SubSeq(text, i + 1, Len(text)), kw)

\* C14: in a customimage block a key that is none of position, size,
\* start, duration, fadeIn, fadeOut ends parsing with the fatal error
\* "unexpected character", the line and the column reported are those of
\* the first character of the key, and the block adds no item.
C14_UnknownKeyIsFatal ==
    [][ /\ (ParseDirective /\ screenSet /\ BlockAt.block /\ UnknownKeyAt(BlockAt.key))
           => ( /\ parser'.err.kind = "unexpected character"
                /\ parser'.pos = BlockAt.key )
        /\ (ParseDirective /\ parser'.err.kind = "unexpected character")
           => ( /\ pc' = "exited"
                /\ parser'.line = LineAt(parser'.pos)
                /\ parser'.linePos = ColAt(parser'.pos)
                /\ cur' = cur
                /\ declared' = declared ) ]_vars

\* C14 witness: parsing has ended on the key color of a block, after an
\* item was made by an earlier directive
C14_Witness ==
    /\ pc = "exited"
    /\ parser.err.kind = "unexpected character"
    /\ parser.pos + 5 <= Len(text)
    /\ SubSeq(text, parser.pos + 1, parser.pos + 5) = << "c", "o", "l", "o", "r" >>
    /\ parser.line = 3
    /\ parser.linePos = 19
    /\ Len(cur) = 1

\* the next iteration of the loop starts at the keyword kw followed by
\* spaces and a quote that no later quote closes
OpenStringAfter(kw) ==
    LET word == ParserSkipWhitespace(parser, TRUE).pos
        quote == ScanTo(word + Len(kw), { " " }, FALSE)
    IN  /\ NextWord(kw)
        /\ quote < Len(text)
        /\ text[quote + 1] = "\""
        /\ ScanTo(quote + 1, { "\"" }, TRUE) = Len(text)

\* parsing ends with expected '"' at the end of the text, nothing added
ExpectedQuoteAtEnd ==
    /\ pc' = "exited"
    /\ parser'.err = [kind |-> "expected", arg |-> << "\"" >>]
    /\ parser'.pos = Len(text)
    /\ parser'.line = LineAt(Len(text))
    /\ parser'.linePos = ColAt(Len(text))
    /\ cur' = cur

InUnit(v) == RGe(v, RInt(0)) /\ ~RGt(v, RInt(1))

\* C16: after parsing, every item of the list has the components of its
\* position and of its size within [0, 1].
C16_ItemsWithinCanvas ==
    pc = "running" =>
       \A i \in DOMAIN imageInfo :
          /\ InUnit(imageInfo[i].position.x)
          /\ InUnit(imageInfo[i].position.y)
          /\ InUnit(imageInfo[i].size.x)
          /\ InUnit(imageInfo[i].size.y)

\* C17: after parsing, every item of the list has startTime, duration,
\* fadeIn and fadeOut that are not negative.
C17_TimesNotNegative ==
    pc = "running" =>
       \A i \in DOMAIN imageInfo :
          /\ RGe(imageInfo[i].startTime, RInt(0))
          /\ RGe(imageInfo[i].duration, RInt(0))
          /\ RGe(imageInfo[i].fadeIn, RInt(0))
          /\ RGe(imageInfo[i].fadeOut, RInt(0))

\* C18: a grammar violation is fatal and leaves no partial result; in
\* the image directive, when the input ends where a row letter is expected
\* (the read of the letter takes the cursor past the end of the text),
\* parsing stops with an error and the directive adds no item.
C18_ImageViolationIsFatal ==
    [][ /\ (ParseDirective /\ ~Ok(parser')) => (pc' = "exited" /\ cur' = cur)
        /\ (ParseDirective /\ screenSet /\ NextWord(KwImage)
                /\ parser'.pos > Len(text))
             => (~Ok(parser') /\ pc' = "exited" /\ cur' = cur) ]_vars

\* C19: started is not set at first, becomes set only by the start
\* trigger (SPACE), and once set stays set in every later state, whatever
\* keys are pressed and ticks occur.
C19_StartedStaysSet ==
    /\ ~started
    /\ [][ /\ started => started'
           /\ (~started /\ started')
                => (pc = "running" /\ startSinceTick' /\ frameStart' = glfwGetTime)
         ]_vars

\* C19 witness: started is still set after ticks and after the key that
\* closes the window
C19_Witness ==
    /\ started
    /\ Ticked
    /\ shouldClose
    /\ ~startSinceTick

\* C20 (as stated): frameStart is recorded at the first start trigger
\* only; a start trigger received while started is set leaves frameStart
\* as it is.
C20_FrameStartRecordedOnce ==
    [][ started => frameStart' = frameStart ]_vars

\* C20 (amended): started is set by the first start trigger and stays
\* set, and frameStart is recorded at every start trigger, also while
\* started is set; nothing else changes frameStart once main has recorded
\* it; the tick after a trigger computes frameTime from the time of that
\* trigger and plays the sound when that frameTime is below the last one.
C20_FrameStartRecordedAtEveryTrigger ==
    [][ /\ (~startSinceTick /\ startSinceTick')
             => (started' /\ frameStart' = glfwGetTime)
        /\ (frameStart' # frameStart)
             => (frameStart' = glfwGetTime /\ (pc = "parsing" \/ startSinceTick'))
        /\ (Display /\ started /\ startSinceTick
                /\ ~RGt(RawElapsed, totalDuration))
             => ( /\ frameTime' = RawElapsed
                  /\ song' <=> RLt(RawElapsed, lastFrameTime) ) ]_vars

\* C20 witness: a start trigger received after a tick, at a later clock
\* value, has moved frameStart, and the tick after it has played the
\* sound a second time with no wrap
C20_Witness ==
    /\ started
    /\ tickAfterStart
    /\ song
    /\ songCount = 2
    /\ wraps = 0
    /\ RGt(frameStart, RInt(0))
    /\ songAfter = { "start" }

\* the slide directives of the descriptions, with the duration each one
\* is written with
SlideBlocks ==
    { [text |-> FragSlide, d |-> RInt(1)],
      [text |-> FragSlideFraction, d |-> R(3, 2)] }

\* C21: a slide directive written with the duration d adds exactly one
\* item, with startTime the loadStartTime of the moment, duration d + 2
\* and fades of 1, and then moves loadStartTime on by d + 3.
C21_SlideTiming ==
    [][ \A b \in SlideBlocks :
          (ParseDirective /\ screenSet /\ DirectiveIs(b.text))
            => ( /\ Ok(parser')
                 /\ Tail(cur') = cur
                 /\ Head(cur').startTime = RInt(loadStartTime)
                 /\ Head(cur').duration = RAdd(b.d, RInt(2))
                 /\ Head(cur').fadeIn = RInt(1)
                 /\ Head(cur').fadeOut = RInt(1)
                 /\ RInt(loadStartTime')
                       = RAdd(RInt(loadStartTime), RAdd(b.d, RInt(3))) )
      ]_vars

\* item is timed as the items of an image directive are
ImageTimed(item) ==
    /\ item.startTime = RInt(loadStartTime)
    /\ item.duration = RInt(12)
    /\ item.fadeIn = RInt(1)
    /\ item.fadeOut = RInt(1)

\* C22: an image directive adds exactly two items, the image and the
\* caption, both with startTime the loadStartTime of the moment, duration
\* 12 and fades of 1, then moves loadStartTime on by 13 and index by 1;
\* index is 1 at first and no other directive changes it, so that the
\* n-th image directive writes n in the path of its image.
C22_ImageTiming ==
    /\ index = 1
    /\ [][ /\ (ParseDirective /\ screenSet /\ NextWord(KwImage))
                => ( /\ Ok(parser')
                     /\ Len(cur') = Len(cur) + 2
                     /\ SubSeq(cur', 3, Len(cur')) = cur
                     /\ ImageTimed(cur'[1])
                     /\ ImageTimed(cur'[2])
                     /\ StringStartsWith(cur'[2].source,
                                         imageDir \o IntToChars(index) \o << "-" >>)
                     /\ loadStartTime' = loadStartTime + 13
                     /\ index' = index + 1 )
           /\ ~(ParseDirective /\ NextWord(KwImage)) => index' = index ]_vars

\* C22 witness: two image directives with a slide between them have been
\* parsed; the image of the second one has 2 in its path
C22_Witness ==
    /\ pc = "running"
    /\ index = 3
    /\ Len(imageInfo) = 5
    /\ imageInfo[2].source = << "2", "-", "7", ".", "j", "p", "g" >>
    /\ imageInfo[5].source = << "1", "-", "7", ".", "j", "p", "g" >>
    /\ imageInfo[2].startTime = RInt(17)

\* C23: the source of every item made by a slide, image or customimage
\* directive is the directory in effect when the directive is parsed
\* (imageDir for images, captionDir for captions) followed by the name
\* read or generated; an imageDir or captionDir directive changes no item
\* made before it.
C23_SourceHasDirectory ==
    [][ /\ (ParseDirective /\ screenSet /\ DirectiveIs(FragSlide))
             => Head(cur').source = imageDir \o << "a" >>
        /\ (ParseDirective /\ screenSet /\ DirectiveIs(FragImage))
             => ( /\ cur'[2].source
                       = imageDir \o IntToChars(index) \o << "-", "7" >> \o SufJpg
                  /\ cur'[1].source = captionDir \o << "7" >> \o SufCJpg )
        /\ (ParseDirective /\ screenSet /\ DirectiveIs(FragCustomShort))
             => Head(cur').source = imageDir \o << "c" >>
        /\ (ParseDirective /\ (NextWord(KwImageDir) \/ NextWord(KwCaptionDir)))
             => cur' = cur ]_vars

\* the words ParserGetImages calls ParserCheck with
CheckedWords ==
    { KwScreen, KwImageDir, KwCaptionDir, KwSlide, KwImage, KwCustomImage }
        \cup PropertyKeys

\* the parser as it is when its cursor is at offset i of the text
ParserAt(i) == [pos |-> i, line |-> LineAt(i), linePos |-> ColAt(i), err |-> NoErr]

\* the text at offset i begins with word, and what follows word is the end
\* of the text or a character that is neither a letter nor a digit
WordAt(i, word) ==
    /\ i + Len(word) <= Len(text)
    /\ SubSeq(text, i + 1, i + Len(word)) = word
    /\ \/ i + Len(word) = Len(text)
       \/ text[i + Len(word) + 1]
             \notin (Range(LowerSeq) \cup Range(UpperSeq) \cup Range(DigitSeq))

\* ParserCheck at offset i gives what WordAt tells
CheckAgrees(p, i, word) ==
    IF WordAt(i, word)
    THEN ParserCheck(p, word) = [p |-> ParserAt(i + Len(word)), ok |-> TRUE]
    ELSE ParserCheck(p, word) = [p |-> p, ok |-> FALSE]

\* C24: at every offset of the text and for every word, ParserCheck
\* returns true and moves the cursor on by the length of the word exactly
\* when the text there begins with the word followed by the end of the
\* text or a character that is no letter and no digit, and otherwise
\* returns false and leaves pos, line and linePos as they are (the text
\* never changes, so every offset is tried where parsing starts, and the
\* cursor of the parser in every state); an imageDir or customimage
\* directive is not taken for an image directive.
C24_CheckConsumesWholeWord ==
    /\ [](parser.pos = 0 =>
            \A i \in 0..Len(text), word \in CheckedWords :
               CheckAgrees(ParserAt(i), i, word))
    /\ [](Ok(parser) /\ parser.pos <= Len(text) =>
            \A word \in CheckedWords : CheckAgrees(parser, parser.pos, word))
    /\ [][ /\ (ParseDirective /\ DirectiveIs(FragImageDir))
                => ( /\ Ok(parser')
                     /\ imageDir' = << "p", "/" >>
                     /\ cur' = cur
                     /\ index' = index )
           /\ (ParseDirective /\ DirectiveIs(FragCustomShort))
                => ( /\ Ok(parser')
                     /\ Len(cur') = Len(cur) + 1
                     /\ Head(cur').source = << "c" >>
                     /\ index' = index ) ]_vars

\* C24 witness: an imageDir directive has been parsed as such, and a
\* customimage directive after it has made its one item
C24_Witness ==
    /\ pc = "running"
    /\ imageDir = << "p", "/" >>
    /\ index = 1
    /\ Len(imageInfo) = 1
    /\ imageInfo[1].source = << "c" >>
    /\ \E i \in 0..Len(text) :
          /\ i + Len(KwImage) < Len(text)
          /\ SubSeq(text, i + 1, i + Len(KwImage)) = KwImage
          /\ text[i + Len(KwImage) + 1] = "D"
          /\ ~ParserCheck(ParserAt(i), KwImage).ok

\* the words the top-level loop of ParserGetImages looks for
DirectiveWords ==
    { KwScreen, KwImageDir, KwCaptionDir, KwSlide, KwImage, KwCustomImage }

\* lines 1001-1025: the cursor after one iteration of the property loop
\* that finds key at offset i
PropertyStep(i, key) ==
    IF key \in { KwPosition, KwSize }
    THEN ParserAssignVec2(ParserCheck(ParserAt(i), key).p).p
    ELSE ParserAssignFloat(ParserCheck(ParserAt(i), key).p).p

\* the first characters of the keys of a block
KeyInitials == { key[1] : key \in PropertyKeys }

\* the cursor p is after offset i, or the process has exited
Advances(p, i) == ~Ok(p) \/ p.pos > i

\* the next step is an iteration of the top-level loop
Iteration == pc = "parsing" /\ ~ParserAtEnd(parser)

\* C25: parsing stops for every text, by the return at the end of the
\* text or by a fatal error: the iteration of the top-level loop that a
\* state is about to run moves the cursor forward or ends the process,
\* and so does an iteration of the property loop at any offset of the text
\* where a key stands; the cursor never goes further than one past the
\* end of the text (so only finitely many iterations can follow one
\* another), the loop returns at the end of the text, and an iteration
\* that finds no keyword moves the cursor one character past the
\* whitespace and makes no item.
C25_ParsingStops ==
    /\ [](Iteration => Advances(LoopBody.parser, parser.pos))
    /\ [](parser.pos = 0
            => \A i \in 0..(Len(text) - 1) :
                  text[i + 1] \in KeyInitials
                    => \A key \in PropertyKeys :
                          WordAt(i, key) => Advances(PropertyStep(i, key), i))
    /\ [](parser.pos <= Len(text) + 1)
    /\ [][ /\ Iteration => (pc' = "exited" \/ parser'.pos > parser.pos)
           /\ (pc = "parsing" /\ ParserAtEnd(parser)) => pc' = "running"
           /\ (Iteration /\ \A word \in DirectiveWords : ~NextWord(word))
                => ( /\ Ok(parser')
                     /\ parser'.pos = ParserSkipWhitespace(parser, TRUE).pos + 1
                     /\ cur' = cur
                     /\ declared' = declared ) ]_vars

\* C25 witness: a text of characters that match no keyword has been
\* parsed to its end, with no item made
C25_Witness ==
    /\ pc = "running"
    /\ text = FragJunk \o FragJunk \o FragJunk
    /\ parser.pos >= Len(text)
    /\ imageInfo = << >>

\* C26: once parsing has returned, no step of the program (a tick, a key
\* event, the clock, the exit) changes the list of items, any field of an
\* item or totalDuration; and a tick while started is not set leaves
\* frameTime and lastFrameTime as they are, so that they keep their
\* initial values for as long as started is not set.
C26_ModelReadOnly ==
    /\ [](~started => (frameTime = RInt(0) /\ lastFrameTime = RInt(Sentinel)))
    /\ [](pc = "running" => imageInfo = Reverse(declared))
    /\ [][ /\ pc = "running"
                => (imageInfo' = imageInfo /\ totalDuration' = totalDuration)
           /\ (Display /\ ~started)
                => (frameTime' = frameTime /\ lastFrameTime' = lastFrameTime) ]_vars

\* C26 witness: after a start, a tick that wrapped and a Q press, the list
\* is the two items the parser made and the loop is 3.5 seconds
C26_Witness ==
    /\ pc = "running"
    /\ started
    /\ shouldClose
    /\ wraps = 1
    /\ text = FragScreen \o FragCustomLate \o FragSlide
    /\ Len(imageInfo) = 2
    /\ imageInfo = Reverse(declared)
    /\ totalDuration = R(7, 2)

\* C27: totalDuration is at least 1 in every state, during parsing and
\* after it, so the loop of line 312 ends for every value of the clock:
\* it subtracts at most once per second elapsed and leaves a frame time
\* that is not above totalDuration.
C27_TotalAtLeastOne ==
    /\ RGe(totalDuration, RInt(1))
    /\ \A t \in 0..MaxClock :
          /\ WrapLoop(R(t, ClockDen), totalDuration, 0).n * ClockDen <= t
          /\ ~RGt(WrapLoop(R(t, ClockDen), totalDuration, 0).ft, totalDuration)

\* C27 witness: a parsed description whose items all end before 1 second
\* (one of them before 0) and whose total is still 1
C27_Witness ==
    /\ pc = "running"
    /\ Len(imageInfo) = 2
    /\ totalDuration = RInt(1)
    /\ \A i \in DOMAIN imageInfo : RLt(ItemEnd(imageInfo[i]), RInt(1))
    /\ \E i \in DOMAIN imageInfo : RLt(ItemEnd(imageInfo[i]), RInt(0))

\* C28: slide and image directives share loadStartTime, which starts at 0:
\* the items of each one start at loadStartTime, and loadStartTime is then
\* the end of these items plus 1, in any order of slide and image
\* directives; a customimage directive and every other iteration leave
\* loadStartTime as it is, and the start of a customimage item is the one
\* of its block, whatever loadStartTime is.
C28_SharedLoadStartTime ==
    /\ loadStartTime = 0
    /\ [][ /\ (ParseDirective /\ NextWord(KwSlide))
                => ( /\ Ok(parser')
                     /\ Len(cur') = Len(cur) + 1
                     /\ cur'[1].startTime = RInt(loadStartTime)
                     /\ RInt(loadStartTime') = RAdd(ItemEnd(cur'[1]), RInt(1)) )
           /\ (ParseDirective /\ NextWord(KwImage))
                => ( /\ Ok(parser')
                     /\ Len(cur') = Len(cur) + 2
                     /\ cur'[1].startTime = RInt(loadStartTime)
                     /\ cur'[2].startTime = RInt(loadStartTime)
                     /\ RInt(loadStartTime') = RAdd(ItemEnd(cur'[1]), RInt(1))
                     /\ RInt(loadStartTime') = RAdd(ItemEnd(cur'[2]), RInt(1)) )
           /\ (ParseDirective /\ DirectiveIs(FragCustomShort))
                => ( /\ Len(cur') = Len(cur) + 1
                     /\ cur'[1].startTime = RInt(0) )
           /\ ~(ParseDirective /\ (NextWord(KwSlide) \/ NextWord(KwImage)))
                => loadStartTime' = loadStartTime ]_vars

\* C28 witness: a slide, a customimage and an image have been parsed; the
\* image and its caption start at 4, the customimage item at 0, and
\* loadStartTime is 17
C28_Witness ==
    /\ pc = "running"
    /\ text = FragScreen \o FragSlide \o FragCustomShort \o FragImage
    /\ Len(imageInfo) = 4
    /\ imageInfo[1].startTime = RInt(4)
    /\ imageInfo[2].startTime = RInt(4)
    /\ imageInfo[3].startTime = RInt(0)
    /\ imageInfo[4].startTime = RInt(0)
    /\ loadStartTime = 17

\* the character before the word the next iteration starts at is a letter
\* or a digit
TailOfWord ==
    /\ parser.pos > 0
    /\ ParserSkipWhitespace(parser, TRUE).pos = parser.pos
    /\ IsAlpha(text[parser.pos]) \/ IsNumber(text[parser.pos])

\* C29: a keyword that is the tail of a longer word of letters and digits
\* (myslide) is not recognised: the iteration that starts at it executes
\* no directive and makes no item.
C29_KeywordTailNotExecuted ==
    [][ (ParseDirective /\ TailOfWord /\ \E word \in DirectiveWords : NextWord(word))
          => ( /\ cur' = cur
               /\ declared' = declared
               /\ parser'.pos = parser.pos + 1 ) ]_vars

====
